---------------------------- MODULE Spec2Model ----------------------------
(***************************************************************************)
(* Model of the resume skill extractor: the upload endpoint of app.py and  *)
(* the model-call / JSON-recovery / normalisation pipeline of ai_parser.py. *)
(*                                                                         *)
(* Text is modelled at two levels.  A Python string that the code trims    *)
(* and lowercases (a skill) is a sequence of one-character strings.  The   *)
(* raw text of a model reply is a sequence of lexical tokens: braces,      *)
(* `"key":` prefixes, brace-free JSON literals, whitespace and brace-free  *)
(* prose; json.loads is a recursive-descent parser over these tokens.      *)
(***************************************************************************)
EXTENDS Integers, Sequences, FiniteSets, TLC

VARIABLES
    normIn,     \* SpecNorm: the (raw, used) pair handed to the pure pipeline
    normOut,    \* SpecNorm: what parse_document_sync + extract_resume_info made of it
    nClients,   \* len(_clients), fixed at import time
    inputs,     \* the uploads and model replies the environment may produce
    pc,         \* per request: position of upload_resume / of its worker task
    file,       \* per request: filename and extension of the upload
    cursor,     \* per request: (idx, attempt) of the loops of _call_groq_sync
    log,        \* per request: remote calls and sleeps made so far, in order
    callResult, \* per request: what _call_groq_sync returned (raw, used)
    parsed,     \* per request: what run_in_executor handed back to the handler
    resp,       \* per request: the HTTP response sent
    queue,      \* work queue of the ThreadPoolExecutor (FIFO)
    onWorker,   \* requests whose task is running on a pool thread
    onLoop      \* request whose handler occupies the event-loop thread (0: none)

vars == << normIn, normOut, nClients, inputs, pc, file, cursor, log,
           callResult, parsed, resp, queue, onWorker, onLoop >>

uploadVars == << nClients, inputs, pc, file, cursor, log, callResult, parsed,
                 resp, queue, onWorker, onLoop >>

(***************************************************************************)
(* Bounds of the model.                                                    *)
(***************************************************************************)
MaxList == 2        \* longest JSON list of a model reply
MaxClients == 2     \* most credentials configured (the code has 6 slots)
NumReq == 3         \* concurrent uploads in SpecConc

(***************************************************************************)
(* Program constants.                                                      *)
(***************************************************************************)
MaxAttempts == 2    \* max_attempts default of _call_groq_sync
MaxWorkers == 2     \* ThreadPoolExecutor(max_workers=2)
SnippetLimit == 2000 \* block[:2000], s[:2000]

(***************************************************************************)
(* Python strings: sequences of characters.                                *)
(***************************************************************************)
LowerChar(c) ==
    CASE c = "A" -> "a"
      [] c = "N" -> "n"
      [] c = "T" -> "t"
      [] c = "F" -> "f"
      [] OTHER -> c

str_lower(s) == [i \in 1..Len(s) |-> LowerChar(s[i])]

IsSpace(c) == c = " "

RECURSIVE LStrip(_)
LStrip(s) == IF s # <<>> /\ IsSpace(Head(s)) THEN LStrip(Tail(s)) ELSE s

RECURSIVE RStrip(_)
RStrip(s) ==
    IF s # <<>> /\ IsSpace(s[Len(s)]) THEN RStrip(SubSeq(s, 1, Len(s) - 1)) ELSE s

str_strip(s) == RStrip(LStrip(s))

Take(s, n) == SubSeq(s, 1, IF Len(s) < n THEN Len(s) ELSE n)

(***************************************************************************)
(* JSON values as Python sees them after json.loads.  A dict is a sequence *)
(* of key/value pairs with distinct keys, in insertion order.              *)
(***************************************************************************)
JNull == [ty |-> "null", v |-> 0]
JBool(b) == [ty |-> "bool", v |-> b]
JNum(n) == [ty |-> "num", v |-> n]      \* n counts ten-thousandths
JStr(s) == [ty |-> "str", v |-> s]
JList(l) == [ty |-> "list", v |-> l]
JDict(d) == [ty |-> "dict", v |-> d]

IsDict(x) == x.ty = "dict"
IsList(x) == x.ty = "list"

HasKey(d, k) == \E i \in 1..Len(d) : d[i].k = k

\* dict.get(k, default)
DictGet(d, k, default) ==
    IF HasKey(d, k) THEN d[CHOOSE i \in 1..Len(d) : d[i].k = k].v ELSE default

\* d[k] = v: a repeated key keeps its place and takes the later value
DictSet(d, k, val) ==
    IF HasKey(d, k)
    THEN [i \in 1..Len(d) |-> IF d[i].k = k THEN [k |-> k, v |-> val] ELSE d[i]]
    ELSE Append(d, [k |-> k, v |-> val])

\* str(x) for the values a list of a reply holds
PyStr(x) ==
    CASE x.ty = "str" -> x.v
      [] x.ty = "null" -> <<"N", "o", "n", "e">>
      [] x.ty = "bool" -> IF x.v THEN <<"T", "r", "u", "e">>
                                 ELSE <<"F", "a", "l", "s", "e">>

\* bool(x)
Truthy(x) ==
    CASE x.ty = "null" -> FALSE
      [] x.ty = "bool" -> x.v
      [] x.ty = "num" -> x.v # 0
      [] OTHER -> x.v # <<>>


InSeq(x, s) == \E i \in 1..Len(s) : s[i] = x

SeqsUpTo(S, n) == UNION {[1..k -> S] : k \in 0..n}

(***************************************************************************)
(* Raw model text: a sequence of tokens.                                   *)
(*   lb, rb   the characters { and }                                       *)
(*   key      `"k":` (with the comma a second member needs)                *)
(*   atom     a JSON literal without braces: null, a boolean, a number,    *)
(*            a string, a list of such                                     *)
(*   ws       whitespace                                                   *)
(*   prose    text without braces that is no JSON, e.g. `Sure! Here is`    *)
(***************************************************************************)
Tok(t, k, val) == [t |-> t, k |-> k, v |-> val]
LB == Tok("lb", "", JNull)
RB == Tok("rb", "", JNull)
WS == Tok("ws", "", JNull)
Prose == Tok("prose", "", JNull)
Key(k) == Tok("key", k, JNull)
Atom(x) == Tok("atom", "", x)

Some(text) == [some |-> TRUE, text |-> text]
NoneText == [some |-> FALSE, text |-> <<>>]

\* Error texts and formatted messages are sequences of parts; <<>> is None.
NoneMsg == <<>>

RECURSIVE LStripWs(_)
LStripWs(s) == IF s # <<>> /\ Head(s).t = "ws" THEN LStripWs(Tail(s)) ELSE s

RECURSIVE RStripWs(_)
RStripWs(s) ==
    IF s # <<>> /\ s[Len(s)].t = "ws" THEN RStripWs(SubSeq(s, 1, Len(s) - 1)) ELSE s

\* raw.strip()
text_strip(s) == RStripWs(LStripWs(s))

\* s.find("{"), s.rfind("}"): 1-based here, 0 where Python answers -1
Find(s, t) ==
    IF \E i \in 1..Len(s) : s[i].t = t
    THEN CHOOSE i \in 1..Len(s) : s[i].t = t /\ \A j \in 1..(i - 1) : s[j].t # t
    ELSE 0

RFind(s, t) ==
    IF \E i \in 1..Len(s) : s[i].t = t
    THEN CHOOSE i \in 1..Len(s) : s[i].t = t /\ \A j \in (i + 1)..Len(s) : s[j].t # t
    ELSE 0

(***************************************************************************)
(* json.loads: value ::= atom | { (key value)* }, whitespace between       *)
(* tokens ignored, nothing but whitespace after the value.                 *)
(***************************************************************************)
ParseFail == [ok |-> FALSE, val |-> JNull, next |-> 0]

RECURSIVE ParseValue(_, _)
RECURSIVE ParseMembers(_, _, _)
ParseValue(s, i) ==
    IF i > Len(s) THEN ParseFail
    ELSE IF s[i].t = "atom" THEN [ok |-> TRUE, val |-> s[i].v, next |-> i + 1]
    ELSE IF s[i].t = "lb" THEN ParseMembers(s, i + 1, <<>>)
    ELSE ParseFail

ParseMembers(s, i, acc) ==
    IF i > Len(s) THEN ParseFail
    ELSE IF s[i].t = "rb" THEN [ok |-> TRUE, val |-> JDict(acc), next |-> i + 1]
    ELSE IF s[i].t = "key"
         THEN LET r == ParseValue(s, i + 1)
              IN  IF r.ok THEN ParseMembers(s, r.next, DictSet(acc, s[i].k, r.val))
                  ELSE ParseFail
    ELSE ParseFail

json_loads(s) ==
    LET t == SelectSeq(s, LAMBDA x : x.t # "ws")
        r == ParseValue(t, 1)
    IN  IF r.ok /\ r.next = Len(t) + 1
        THEN [ok |-> TRUE, val |-> r.val]
        ELSE [ok |-> FALSE, val |-> JNull]

(***************************************************************************)
(* _safe_load_json_from_model(raw) -> (parsed, error, snippet).  Python's  *)
(* None for parsed is JNull, which is also what json.loads("null") gives.  *)
(***************************************************************************)
safe_load_json_from_model(raw) ==
    IF ~raw.some \/ raw.text = <<>>
    THEN [parsed |-> JNull, error |-> <<"empty model response">>, snippet |-> <<>>]
    ELSE LET s == text_strip(raw.text)
             direct == json_loads(s)
             start == Find(s, "lb")
             end == RFind(s, "rb")
             block == SubSeq(s, start, end)
             inner == json_loads(block)
         IN  IF direct.ok
             THEN [parsed |-> direct.val, error |-> NoneMsg, snippet |-> s]
             ELSE IF start # 0 /\ end # 0 /\ end > start
             THEN IF inner.ok
                  THEN [parsed |-> inner.val, error |-> NoneMsg, snippet |-> block]
                  ELSE [parsed |-> JNull,
                        error |-> <<"json load failed: ", "JSONDecodeError">>,
                        snippet |-> Take(block, SnippetLimit)]
             ELSE [parsed |-> JNull, error |-> <<"no JSON object found">>,
                   snippet |-> Take(s, SnippetLimit)]

(***************************************************************************)
(* parse_document_sync after _call_groq_sync has returned (raw, used).     *)
(* used is the index of the client, 0 for None.                            *)
(***************************************************************************)
parse_document_sync(raw, used) ==
    IF ~raw.some
    THEN [parsed |-> JNull, raw |-> NoneText, client_used |-> used,
          snippet |-> <<>>, error |-> <<"No model response.">>]
    ELSE LET r == safe_load_json_from_model(raw)
         IN  [parsed |-> r.parsed, raw |-> raw, client_used |-> used,
              snippet |-> r.snippet, error |-> r.error]

(***************************************************************************)
(* extract_resume_info: the normalised record made of parse_document_sync's *)
(* result.  Confidence counts ten-thousandths, so round(x, 3) rounds to a  *)
(* multiple of 10 (the inputs hold no decimal tie).                        *)
(***************************************************************************)
Clean(x) == str_lower(str_strip(PyStr(x)))

\* [str(x).strip().lower() for x in s if str(x).strip()]
skills_from_list(s) ==
    LET kept == SelectSeq(s, LAMBDA x : str_strip(PyStr(x)) # <<>>)
    IN  [i \in 1..Len(kept) |-> Clean(kept[i])]

\* for it in v: it = str(it).strip().lower(); if it and it not in skills: append
RECURSIVE add_items(_, _)
add_items(skills, items) ==
    IF items = <<>> THEN skills
    ELSE LET it == Clean(Head(items))
         IN  add_items(IF it # <<>> /\ ~InSeq(it, skills) THEN Append(skills, it)
                       ELSE skills,
                       Tail(items))

\* for v in ts.values(): if isinstance(v, list): ...
RECURSIVE add_categories(_, _)
add_categories(skills, pairs) ==
    IF pairs = <<>> THEN skills
    ELSE add_categories(IF IsList(Head(pairs).v) THEN add_items(skills, Head(pairs).v.v)
                        ELSE skills,
                        Tail(pairs))

skills_of(d) ==
    LET s == DictGet(d, "skills", JNull)
        skills == IF IsList(s) THEN skills_from_list(s.v) ELSE <<>>
        ts == DictGet(d, "technical_skills", JNull)
    IN  IF skills # <<>> THEN skills
        ELSE IF IsDict(ts) THEN add_categories(<<>>, ts.v)
        ELSE <<>>

\* bool(parsed.get("is_resume", False))
is_resume_of(d) == Truthy(DictGet(d, "is_resume", JBool(FALSE)))

\* float(x): a number or a boolean converts; None, a list, a dict raise
\* TypeError and the strings of the model (no digits, not nan or inf) raise
\* ValueError.
PyFloat(x) ==
    CASE x.ty = "num" -> [ok |-> TRUE, val |-> x.v]
      [] x.ty = "bool" -> [ok |-> TRUE, val |-> IF x.v THEN 10000 ELSE 0]
      [] OTHER -> [ok |-> FALSE, val |-> 0]

Round3(n) ==
    CASE n % 10 < 5 -> n - (n % 10)
      [] n % 10 > 5 -> n - (n % 10) + 10

confidence_of(d) ==
    LET f == PyFloat(DictGet(d, "confidence", JNum(0)))
    IN  IF f.ok THEN f.val ELSE 0

extract_resume_info_keeps_error(out) ==
    IF IsDict(out.parsed)
    THEN [skills |-> skills_of(out.parsed.v),
          is_resume |-> is_resume_of(out.parsed.v),
          confidence |-> Round3(confidence_of(out.parsed.v)),
          error |-> out.error]
    ELSE [skills |-> <<>>, is_resume |-> FALSE, confidence |-> Round3(0),
          error |-> out.error]

extract_resume_info(out) ==
    IF IsDict(out.parsed)
    THEN [skills |-> skills_of(out.parsed.v),
          is_resume |-> is_resume_of(out.parsed.v),
          confidence |-> Round3(confidence_of(out.parsed.v)),
          error |-> out.error]
    ELSE [skills |-> <<>>,
          is_resume |-> FALSE,
          confidence |-> Round3(0),
          error |-> IF out.error = NoneMsg
                    THEN <<"Model did not return valid JSON.">>
                    ELSE out.error]

(***************************************************************************)
(* The model replies the pure pipeline is checked on.                      *)
(***************************************************************************)
Items ==
    { JStr(<<"A">>), JStr(<<"a">>), JStr(<<" ", "b", " ">>), JStr(<<" ">>), JNull }

Absent == [ty |-> "absent", v |-> 0]

SkillsVals ==
    {JList(l) : l \in SeqsUpTo(Items, MaxList)} \cup {JStr(<<"a">>), Absent}

IsResumeVals ==
    { JBool(TRUE), JBool(FALSE), JStr(<<"n", "o">>), JNum(0), JNum(10000),
      JList(<<JStr(<<"a">>)>>), JDict(<<[k |-> "x", v |-> JNull]>>), JNull, Absent }

ConfidenceVals == { JNum(9000), JNum(12346), JStr(<<"a">>), Absent }

TechVals ==
    { JDict(<<[k |-> "lang", v |-> JList(<<JStr(<<"A">>), JStr(<<"b">>)>>)],
              [k |-> "misc", v |-> JStr(<<"a">>)],
              [k |-> "tools", v |-> JList(<<JStr(<<" ", "a">>), JStr(<<"b">>)>>)]>>),
      JList(<<JStr(<<"a">>)>>),
      Absent }

\* The tokens of a JSON value: a dict is spelled out with its braces.
RECURSIVE Tokens(_)
RECURSIVE MemberTokens(_)
Tokens(x) == IF IsDict(x) THEN <<LB>> \o MemberTokens(x.v) \o <<RB>> ELSE <<Atom(x)>>

MemberTokens(d) ==
    IF d = <<>> THEN <<>>
    ELSE <<Key(Head(d).k)>> \o Tokens(Head(d).v) \o MemberTokens(Tail(d))

Member(k, x) == IF x = Absent THEN <<>> ELSE <<Key(k)>> \o Tokens(x)

ObjectTexts ==
    { <<LB>> \o Member("skills", s) \o Member("technical_skills", t)
         \o Member("is_resume", r) \o Member("confidence", c) \o <<RB>> :
        s \in SkillsVals, t \in TechVals, r \in IsResumeVals, c \in ConfidenceVals }

OddTexts ==
    { <<>>, <<WS>>, <<Prose>>, <<Prose, WS, Prose>>,
      <<Atom(JNull)>>, <<WS, Atom(JNum(9000))>>, <<Atom(JList(<<JStr(<<"a">>)>>))>>,
      <<Atom(JStr(<<"a">>))>>, <<Atom(JBool(TRUE)), WS>>, <<Prose, Atom(JNull)>>,
      <<LB>>, <<RB>>, <<RB, Prose, LB>>, <<LB, Prose, RB>>, <<Prose, LB, RB, LB, RB>>,
      <<LB, Key("skills"), RB>>,
      <<LB, Key("is_resume"), Atom(JBool(FALSE)), Key("is_resume"), Atom(JBool(TRUE)), RB>> }

RawTexts ==
    ObjectTexts
    \cup { <<WS>> \o o \o <<WS>> : o \in ObjectTexts }
    \cup { <<Prose, WS>> \o o \o <<Prose>> : o \in ObjectTexts }
    \cup { SubSeq(o, 1, Len(o) - 1) : o \in ObjectTexts }
    \cup { <<Prose>> \o SubSeq(o, 2, Len(o)) : o \in ObjectTexts }
    \cup OddTexts

NormInputs ==
    { [raw |-> Some(t), used |-> 1] : t \in RawTexts }
    \cup { [raw |-> NoneText, used |-> u] : u \in 0..1 }

(***************************************************************************)
(* The pure pipeline as a one-step machine (SpecNorm).                     *)
(***************************************************************************)
Normalize ==
    /\ normOut = <<>>
    /\ normIn \in NormInputs
    /\ normOut' = <<extract_resume_info(parse_document_sync(normIn.raw, normIn.used))>>
    /\ UNCHANGED << normIn, uploadVars >>

(***************************************************************************)
(* The upload endpoint.                                                    *)
(***************************************************************************)
Reqs == 1..NumReq

\* A filename is its dot-separated parts; <<>> is a missing or empty name.
Filenames ==
    { <<"cv", "pdf">>, <<"cv", "PDF">>, <<"cv", "docx">>, <<"cv", "txt">>,
      <<"cv", "pdf", "exe">>, <<"docx">>, <<>> }

LowerWord(w) ==
    CASE w = "PDF" -> "pdf"
      [] w = "DOCX" -> "docx"
      [] OTHER -> w

\* filename = file.filename or "unknown"; ext = filename.split('.')[-1].lower()
filename_of(fn) == IF fn = <<>> THEN <<"unknown">> ELSE fn
ext_of(fn) == LowerWord(filename_of(fn)[Len(filename_of(fn))])

supported_any(ext) == TRUE

\* if ext == 'pdf': ... elif ext == 'docx': ... else: raise HTTPException(400)
supported(ext) == ext \in {"pdf", "docx"}

SampleObjects ==
    { <<LB>> \o Member("skills", s) \o Member("is_resume", r)
         \o Member("confidence", JNum(9000)) \o <<RB>> :
        s \in {JList(<<JStr(<<"A">>), JStr(<<"a">>), JStr(<<" ", "b", " ">>)>>), Absent},
        r \in {JBool(TRUE), JStr(<<"n", "o">>), Absent} }

SampleTexts ==
    SampleObjects \cup { <<Prose, WS>> \o o : o \in SampleObjects } \cup OddTexts

\* message.content of a completion: text, or None
SampleReplies == { Some(t) : t \in SampleTexts } \cup { NoneText }

NoFile == [filename |-> <<>>, ext |-> ""]
NoCall == [raw |-> NoneText, used |-> 0, done |-> FALSE]
NoResponse == [status |-> 0, body |-> <<>>]

HTTPException(status, detail) == [status |-> status, body |-> [detail |-> detail]]
JSONResponse(status, content) == [status |-> status, body |-> content]

RecGet(rec, key, default) == IF key \in DOMAIN rec THEN rec[key] ELSE default

UploadInit(in, counts) ==
    /\ nClients \in counts
    /\ inputs = in
    /\ pc = [r \in Reqs |-> "new"]
    /\ file = [r \in Reqs |-> NoFile]
    /\ cursor = [r \in Reqs |-> [idx |-> 0, attempt |-> 0]]
    /\ log = [r \in Reqs |-> <<>>]
    /\ callResult = [r \in Reqs |-> NoCall]
    /\ parsed = [r \in Reqs |-> <<>>]
    /\ resp = [r \in Reqs |-> NoResponse]
    /\ queue = <<>>
    /\ onWorker = {}
    /\ onLoop = 0

Ev(op, idx, attempt, dur) == [op |-> op, idx |-> idx, attempt |-> attempt, dur |-> dur]
Step(op) == Ev(op, 0, 0, 0)
Logged(r, ev) == log' = [log EXCEPT ![r] = Append(@, ev)]
Responded(r, response) ==
    /\ resp' = [resp EXCEPT ![r] = response]
    /\ pc' = [pc EXCEPT ![r] = "done"]

\* The handler starts on the event loop: filename, ext, then `await file.read()`.
Receive(r) ==
    /\ r \in inputs.reqs
    /\ pc[r] = "new"
    /\ onLoop = 0
    /\ \E fn \in inputs.files :
          file' = [file EXCEPT ![r] = [filename |-> filename_of(fn), ext |-> ext_of(fn)]]
    /\ pc' = [pc EXCEPT ![r] = "reading"]
    /\ UNCHANGED << normIn, normOut, nClients, inputs, cursor, log, callResult,
                    parsed, resp, queue, onWorker, onLoop >>

\* `await file.read()` raised
ReadFails(r) ==
    /\ pc[r] = "reading"
    /\ onLoop = 0
    /\ Logged(r, Step("read_fail"))
    /\ Responded(r, HTTPException(400, <<"Failed to read uploaded file: ", "read error">>))
    /\ UNCHANGED << normIn, normOut, nClients, inputs, file, cursor, callResult,
                    parsed, queue, onWorker, onLoop >>

\* The read returned and the extension is neither pdf nor docx.
RejectExtension(r) ==
    /\ pc[r] = "reading"
    /\ onLoop = 0
    /\ ~supported(file[r].ext)
    /\ Logged(r, Step("bad_ext"))
    /\ Responded(r, HTTPException(400, <<"Unsupported file type. Use .pdf or .docx">>))
    /\ UNCHANGED << normIn, normOut, nClients, inputs, file, cursor, callResult,
                    parsed, queue, onWorker, onLoop >>

\* The read returned and the handler calls extract_text_from_pdf / _docx: a
\* plain call in the coroutine, so the event-loop thread runs it.
ExtractBegin(r) ==
    /\ pc[r] = "reading"
    /\ onLoop = 0
    /\ supported(file[r].ext)
    /\ pc' = [pc EXCEPT ![r] = "extracting"]
    /\ onLoop' = r
    /\ UNCHANGED << normIn, normOut, nClients, inputs, file, cursor, log, callResult,
                    parsed, resp, queue, onWorker >>

extract_error(ext) ==
    IF ext = "pdf" THEN <<"PDF parsing failed: ", "error">>
    ELSE <<"DOCX parsing failed: ", "error">>

\* The extractor raised RuntimeError.
ExtractFails(r) ==
    /\ pc[r] = "extracting"
    /\ onLoop = r
    /\ Logged(r, Step("extract_fail"))
    /\ Responded(r, HTTPException(500, extract_error(file[r].ext)))
    /\ onLoop' = 0
    /\ UNCHANGED << normIn, normOut, nClients, inputs, file, cursor, callResult,
                    parsed, queue, onWorker >>

\* The extractor returned; loop.run_in_executor(executor, extract_resume_info, text)
\* queues the task and the handler awaits its future.
Submit(r) ==
    /\ pc[r] = "extracting"
    /\ onLoop = r
    /\ Logged(r, Step("invoke"))
    /\ queue' = Append(queue, r)
    /\ pc' = [pc EXCEPT ![r] = "queued"]
    /\ onLoop' = 0
    /\ UNCHANGED << normIn, normOut, nClients, inputs, file, cursor, callResult,
                    parsed, resp, onWorker >>

(***************************************************************************)
(* The task on a pool thread: extract_resume_info -> parse_document_sync   *)
(* -> _call_groq_sync, one step per remote call and per sleep.             *)
(***************************************************************************)
worker_unbounded(busy) == TRUE

\* ThreadPoolExecutor(max_workers=2): a queued task starts when a thread is free
worker_free(busy) == Cardinality(busy) < MaxWorkers

\* return resp.choices[0].message.content, f"client{idx}"
call_returns(content, idx) == [raw |-> content, used |-> idx]

\* return None, None
no_response == [raw |-> NoneText, used |-> 0]

\* extract_resume_info returns: the future completes and the thread is free
Returned(r, result) ==
    /\ callResult' = [callResult EXCEPT ![r] =
                         [raw |-> result.raw, used |-> result.used, done |-> TRUE]]
    /\ parsed' = [parsed EXCEPT ![r] =
                     <<extract_resume_info(parse_document_sync(result.raw, result.used))>>]
    /\ pc' = [pc EXCEPT ![r] = "returned"]
    /\ onWorker' = onWorker \ {r}

\* A pool thread takes the head of the queue.  With no client configured
\* _call_groq_sync returns at once and the task runs to its end.
WorkerStart(r) ==
    /\ pc[r] = "queued"
    /\ queue # <<>> /\ Head(queue) = r
    /\ worker_free(onWorker)
    /\ queue' = Tail(queue)
    /\ IF nClients = 0
       THEN /\ Returned(r, no_response)
            /\ UNCHANGED cursor
       ELSE /\ cursor' = [cursor EXCEPT ![r] = [idx |-> 1, attempt |-> 1]]
            /\ pc' = [pc EXCEPT ![r] = "calling"]
            /\ onWorker' = onWorker \cup {r}
            /\ UNCHANGED << callResult, parsed >>
    /\ UNCHANGED << normIn, normOut, nClients, inputs, file, log, resp, onLoop >>

\* client.chat.completions.create(...) returned and the content was read
CallReturns(r) ==
    /\ pc[r] = "calling"
    /\ Logged(r, Ev("call_ok", cursor[r].idx, cursor[r].attempt, 0))
    /\ \E content \in inputs.replies : Returned(r, call_returns(content, cursor[r].idx))
    /\ UNCHANGED << normIn, normOut, nClients, inputs, file, cursor, resp, queue, onLoop >>

\* the try body raised: the handler goes on to time.sleep(0.5 * attempt)
CallRaises(r) ==
    /\ pc[r] = "calling"
    /\ Logged(r, Ev("call_raised", cursor[r].idx, cursor[r].attempt, 0))
    /\ pc' = [pc EXCEPT ![r] = "sleeping"]
    /\ UNCHANGED << normIn, normOut, nClients, inputs, file, cursor, callResult,
                    parsed, resp, queue, onWorker, onLoop >>

next_attempt_no_retry(cur, n) ==
    IF cur.idx < n THEN [idx |-> cur.idx + 1, attempt |-> 1]
    ELSE [idx |-> 0, attempt |-> 0]

\* for idx, client in enumerate(clients, 1): for attempt in range(1, max_attempts + 1)
\* (idx 0: both loops are over)
next_attempt(cur, n) ==
    IF cur.attempt < MaxAttempts THEN [idx |-> cur.idx, attempt |-> cur.attempt + 1]
    ELSE IF cur.idx < n THEN [idx |-> cur.idx + 1, attempt |-> 1]
    ELSE [idx |-> 0, attempt |-> 0]

\* sleep in tenths of a second: 0.5 * attempt
backoff(attempt) == 5 * attempt

\* time.sleep(...) is over: next attempt, next client, or the end of both loops
Sleep(r) ==
    /\ pc[r] = "sleeping"
    /\ Logged(r, Ev("sleep", cursor[r].idx, cursor[r].attempt, backoff(cursor[r].attempt)))
    /\ LET nxt == next_attempt(cursor[r], nClients)
       IN  /\ cursor' = [cursor EXCEPT ![r] = nxt]
           /\ IF nxt.idx = 0
              THEN Returned(r, no_response)
              ELSE /\ pc' = [pc EXCEPT ![r] = "calling"]
                   /\ UNCHANGED << callResult, parsed, onWorker >>
    /\ UNCHANGED << normIn, normOut, nClients, inputs, file, resp, queue, onLoop >>

\* The task ends with an exception the pipeline does not catch; the future
\* carries it to the `await` of the handler.
TaskFault(r) ==
    /\ pc[r] \in {"calling", "sleeping"}
    /\ pc' = [pc EXCEPT ![r] = "raised"]
    /\ onWorker' = onWorker \ {r}
    /\ UNCHANGED << normIn, normOut, nClients, inputs, file, cursor, log, callResult,
                    parsed, resp, queue, onLoop >>

(***************************************************************************)
(* Back on the event loop: the handler builds the response.                *)
(***************************************************************************)
\* isinstance(skills, list): parsed.get("skills") is the list of the record, or
\* None (JNull) when the key is missing
IsList_py(x) == x # JNull

\* except Exception as e: JSONResponse(status_code=500, ...)
fault_response(f) ==
    JSONResponse(500, [filename |-> f.filename, extension |-> f.ext, skills |-> <<>>,
                       error |-> <<"AI parsing execution failed: ", "error">>,
                       ai_raw |-> NoneText])

upload_response_drops_skills(f, result) ==
    IF result = <<>>
    THEN JSONResponse(502, [filename |-> f.filename, extension |-> f.ext,
                            error |-> <<"AI parser returned no usable result">>,
                            ai_raw |-> NoneText])
    ELSE IF RecGet(result[1], "error", NoneMsg) # NoneMsg
    THEN JSONResponse(502, [filename |-> f.filename, extension |-> f.ext,
                            error |-> <<"AI parsing error: ">> \o result[1].error,
                            ai_raw |-> RecGet(result[1], "raw", NoneText),
                            client_used |-> RecGet(result[1], "client_used", 0)])
    ELSE JSONResponse(200, [filename |-> f.filename, extension |-> f.ext,
                            skills |-> result[1].skills,
                            is_resume |-> RecGet(result[1], "is_resume", FALSE)])

upload_response_ignores_error(f, result) ==
    JSONResponse(200, [filename |-> f.filename, extension |-> f.ext,
                       skills |-> IF result = <<>> THEN <<>> ELSE result[1].skills,
                       is_resume |-> IF result = <<>> THEN FALSE
                                     ELSE RecGet(result[1], "is_resume", FALSE)])

\* The handler after the await: result is <<>> for a falsy or non-dict value,
\* <<record>> for the dict extract_resume_info returns.
upload_response(f, result) ==
    IF result = <<>>
    THEN JSONResponse(502, [filename |-> f.filename, extension |-> f.ext,
                            skills |-> <<>>,
                            error |-> <<"AI parser returned no usable result">>,
                            ai_raw |-> NoneText])
    ELSE LET p == result[1]
             got == RecGet(p, "skills", JNull)
             skills == IF IsList_py(got) THEN got ELSE <<>>
         IN  IF RecGet(p, "error", NoneMsg) # NoneMsg
             THEN JSONResponse(502, [filename |-> f.filename, extension |-> f.ext,
                                     skills |-> skills,
                                     error |-> <<"AI parsing error: ">> \o p.error,
                                     ai_raw |-> RecGet(p, "raw", NoneText),
                                     client_used |-> RecGet(p, "client_used", 0)])
             ELSE JSONResponse(200, [filename |-> f.filename, extension |-> f.ext,
                                     skills |-> skills,
                                     is_resume |-> (RecGet(p, "is_resume", FALSE) = TRUE)])

Respond(r) ==
    /\ pc[r] \in {"returned", "raised"}
    /\ onLoop = 0
    /\ Logged(r, Step(pc[r]))
    /\ Responded(r, IF pc[r] = "raised" THEN fault_response(file[r])
                    ELSE upload_response(file[r], parsed[r]))
    /\ UNCHANGED << normIn, normOut, nClients, inputs, file, cursor, callResult,
                    parsed, queue, onWorker, onLoop >>

(***************************************************************************)
(* Specifications.                                                         *)
(***************************************************************************)
NoNormInput == [raw |-> NoneText, used |-> 0]

UploadNext ==
    \E r \in Reqs :
        \/ Receive(r)
        \/ ReadFails(r)
        \/ RejectExtension(r)
        \/ ExtractBegin(r)
        \/ ExtractFails(r)
        \/ Submit(r)
        \/ WorkerStart(r)
        \/ CallReturns(r)
        \/ CallRaises(r)
        \/ Sleep(r)
        \/ TaskFault(r)
        \/ Respond(r)

\* One upload, every filename and a sample of model replies.
Init ==
    /\ normIn = NoNormInput
    /\ normOut = <<>>
    /\ UploadInit([reqs |-> {1}, files |-> Filenames, replies |-> SampleReplies],
                  0..MaxClients)

Next == UploadNext

Spec == Init /\ [][Next]_vars

\* NumReq concurrent uploads, one client configured, one good reply.
ConcFiles == { <<"cv", "pdf">>, <<"cv", "txt">> }
ConcReplies == { Some(<<LB, Key("skills"), Atom(JList(<<JStr(<<"a">>)>>)), RB>>) }

InitConc ==
    /\ normIn = NoNormInput
    /\ normOut = <<>>
    /\ UploadInit([reqs |-> Reqs, files |-> ConcFiles, replies |-> ConcReplies], {1})

SpecConc == InitConc /\ [][Next]_vars

\* The pure pipeline on every raw text of RawTexts.
InitNorm ==
    /\ normIn \in NormInputs
    /\ normOut = <<>>
    /\ nClients = 0
    /\ inputs = [reqs |-> {}, files |-> {}, replies |-> {}]
    /\ pc = [r \in Reqs |-> "new"]
    /\ file = [r \in Reqs |-> NoFile]
    /\ cursor = [r \in Reqs |-> [idx |-> 0, attempt |-> 0]]
    /\ log = [r \in Reqs |-> <<>>]
    /\ callResult = [r \in Reqs |-> NoCall]
    /\ parsed = [r \in Reqs |-> <<>>]
    /\ resp = [r \in Reqs |-> NoResponse]
    /\ queue = <<>>
    /\ onWorker = {}
    /\ onLoop = 0

NextNorm == Normalize

SpecNorm == InitNorm /\ [][NextNorm]_vars

(***************************************************************************)
(* What the log of a request says.                                         *)
(***************************************************************************)
Calls(r) == SelectSeq(log[r], LAMBDA e : e.op \in {"call_ok", "call_raised"})
Sleeps(r) == SelectSeq(log[r], LAMBDA e : e.op = "sleep")
StepEvents(r) ==
    SelectSeq(log[r], LAMBDA e : e.op \notin {"call_ok", "call_raised", "sleep"})
Steps(r) == [i \in 1..Len(StepEvents(r)) |-> StepEvents(r)[i].op]
Invoked(r) == \E i \in 1..Len(log[r]) : log[r][i].op = "invoke"
AllCallsRaised(r) == \A i \in 1..Len(Calls(r)) : Calls(r)[i].op = "call_raised"
HasSkillsList(body) == "skills" \in DOMAIN body /\ body.skills \in Seq(Seq(STRING))

(***************************************************************************)
(* C1 as stated: every response of the upload endpoint, whatever the       *)
(* outcome of its steps, has a `skills` field holding a list.  The code    *)
(* answers a read failure, an unsupported extension and an extractor       *)
(* failure with an HTTPException, whose body is {"detail": ...}.           *)
(***************************************************************************)
C1_EveryResponseHasSkills ==
    \A r \in Reqs : resp[r].status # 0 => HasSkillsList(resp[r].body)

(***************************************************************************)
(* C1 amended: every response built after the pipeline was invoked (task   *)
(* exception, absent result, record with error, success) has a `skills`    *)
(* field holding a list; the responses sent before that (read failure,     *)
(* unsupported extension, extractor failure) carry `detail` alone.         *)
(***************************************************************************)
C1_PipelineResponsesHaveSkills ==
    \A r \in Reqs :
        resp[r].status # 0 =>
            IF Invoked(r) THEN HasSkillsList(resp[r].body)
            ELSE DOMAIN resp[r].body = {"detail"}

C1_Witness ==
    \E r \in Reqs :
        /\ resp[r].status = 502
        /\ resp[r].body.error # NoneMsg
        /\ HasSkillsList(resp[r].body)

(***************************************************************************)
(* C2: _call_groq_sync makes its remote calls in the order client 1        *)
(* attempts 1..M, client 2 attempts 1..M, ...: the k-th call is attempt    *)
(* ((k-1) mod M)+1 of client ((k-1) div M)+1; it makes at most N*M calls;  *)
(* every call before the last one raised, so none follows a call that      *)
(* returned.                                                               *)
(***************************************************************************)
C2_FailoverOrder ==
    \A r \in Reqs :
        LET calls == Calls(r)
        IN  /\ Len(calls) <= nClients * MaxAttempts
            /\ \A k \in 1..Len(calls) :
                  /\ calls[k].idx = ((k - 1) \div MaxAttempts) + 1
                  /\ calls[k].attempt = ((k - 1) % MaxAttempts) + 1
                  /\ k < Len(calls) => calls[k].op = "call_raised"
            /\ (\E k \in 1..Len(calls) : calls[k].op = "call_ok") =>
                  /\ callResult[r].done
                  /\ callResult[r].used = calls[Len(calls)].idx

C2_Witness ==
    \E r \in Reqs :
        /\ nClients > 1
        /\ Len(Calls(r)) = nClients * MaxAttempts
        /\ Calls(r)[Len(Calls(r))].op = "call_ok"
        /\ callResult[r].done

(***************************************************************************)
(* C3: when _call_groq_sync ends without any call having returned (no      *)
(* client configured, or every attempt of every client raised), it returns *)
(* (None, None); with no client it has made no call and slept not at all,  *)
(* otherwise it has made all N*M calls; the upload endpoint then answers   *)
(* 502 with a non-empty error and skills = [].                             *)
(***************************************************************************)
C3_NoResponseIs502 ==
    \A r \in Reqs :
        (callResult[r].done /\ AllCallsRaised(r)) =>
            /\ callResult[r].raw = NoneText
            /\ callResult[r].used = 0
            /\ Len(Calls(r)) = nClients * MaxAttempts
            /\ Len(Sleeps(r)) = Len(Calls(r))
            /\ pc[r] \in {"returned", "done"}
            /\ resp[r].status # 0 =>
                  /\ resp[r].status = 502
                  /\ resp[r].body.error # NoneMsg
                  /\ resp[r].body.skills = <<>>

C3_Witness ==
    \E r \in Reqs :
        /\ nClients > 1
        /\ callResult[r].done
        /\ AllCallsRaised(r)
        /\ Len(Calls(r)) = nClients * MaxAttempts
        /\ resp[r].status = 502

C3_WitnessNoCredentials ==
    \E r \in Reqs :
        /\ nClients = 0
        /\ callResult[r].done
        /\ log[r] = <<Step("invoke"), Step("returned")>>
        /\ resp[r].status = 502

(***************************************************************************)
(* C5: a 502 response for a record with an error, when the model did       *)
(* return text, carries that text in ai_raw and the client that produced   *)
(* it in client_used.  extract_resume_info returns a record without the    *)
(* keys raw and client_used, so the handler's .get() answers None.         *)
(***************************************************************************)
C5_ErrorResponseCarriesRawAndClient ==
    \A r \in Reqs :
        (/\ resp[r].status = 502
         /\ callResult[r].done
         /\ callResult[r].raw.some
         /\ callResult[r].raw.text # <<>>) =>
            /\ "ai_raw" \in DOMAIN resp[r].body
            /\ resp[r].body.ai_raw = callResult[r].raw
            /\ "client_used" \in DOMAIN resp[r].body
            /\ resp[r].body.client_used = callResult[r].used

(***************************************************************************)
(* C10: in every result of _call_groq_sync the text and the client         *)
(* identifier are both present or both absent.  A call that returns with   *)
(* message.content = None ends the failover with (None, "client<idx>").    *)
(***************************************************************************)
C10_TextAndClientTogether ==
    \A r \in Reqs :
        callResult[r].done => (callResult[r].raw.some <=> callResult[r].used # 0)

(***************************************************************************)
(* C8: a request ends in exactly one response, decided by the first step   *)
(* that ends it: 400 for a read failure or an extension other than         *)
(* pdf/docx, 500 for an extractor failure or a task that raised, 502 for a *)
(* pipeline result that is absent or carries an error, 200 otherwise.  A   *)
(* request answered before the pipeline was invoked never reached the      *)
(* queue, a pool thread or the remote model, and 200 is answered only for  *)
(* model text that parsed into a mapping without error.                    *)
(***************************************************************************)
C8_LinearStepsAndStatus ==
    \A r \in Reqs :
        LET steps == Steps(r)
            status == resp[r].status
            untouched == /\ Calls(r) = <<>>
                         /\ Sleeps(r) = <<>>
                         /\ ~callResult[r].done
                         /\ parsed[r] = <<>>
                         /\ r \notin onWorker
                         /\ ~InSeq(r, queue)
        IN  /\ (status = 0) = (pc[r] # "done")
            /\ status = 0 => steps \in {<<>>, <<"invoke">>}
            /\ status # 0 =>
                  /\ steps \in { <<"read_fail">>, <<"bad_ext">>, <<"extract_fail">>,
                                 <<"invoke", "raised">>, <<"invoke", "returned">> }
                  /\ steps = <<"read_fail">> => status = 400 /\ untouched
                  /\ steps = <<"bad_ext">> =>
                        status = 400 /\ untouched /\ file[r].ext \notin {"pdf", "docx"}
                  /\ file[r].ext \notin {"pdf", "docx"} => status = 400
                  /\ steps = <<"extract_fail">> => status = 500 /\ untouched
                  /\ steps = <<"invoke", "raised">> => status = 500
                  /\ steps = <<"invoke", "returned">> =>
                        /\ callResult[r].done
                        /\ status = IF parsed[r] = <<>> \/ parsed[r][1].error # NoneMsg
                                    THEN 502 ELSE 200
                  /\ status = 200 =>
                        /\ callResult[r].raw.some
                        /\ IsDict(safe_load_json_from_model(callResult[r].raw).parsed)
                        /\ safe_load_json_from_model(callResult[r].raw).error = NoneMsg

C8_Witness ==
    \E r \in Reqs :
        /\ resp[r].status = 200
        /\ file[r].filename = <<"cv", "PDF">>
        /\ Steps(r) = <<"invoke", "returned">>
        /\ Len(Calls(r)) > 1
        /\ resp[r].body.skills # <<>>

(***************************************************************************)
(* What the pure pipeline was given (SpecNorm).                            *)
(***************************************************************************)
Ran == normOut # <<>>
Loaded == safe_load_json_from_model(normIn.raw).parsed
YieldsMapping == normIn.raw.some /\ IsDict(Loaded)
HasBrace(text) == \E i \in 1..Len(text) : text[i].t \in {"lb", "rb"}
IsJson(text) == json_loads(text_strip(text)).ok

RECURSIVE DedupFirst(_)
DedupFirst(s) ==
    IF s = <<>> THEN <<>>
    ELSE LET front == DedupFirst(SubSeq(s, 1, Len(s) - 1))
         IN  IF InSeq(s[Len(s)], front) THEN front ELSE Append(front, s[Len(s)])

TrimmedLowered(l) ==
    LET cleaned == [i \in 1..Len(l) |-> str_lower(str_strip(l[i].v))]
    IN  SelectSeq(cleaned, LAMBDA x : x # <<>>)

(***************************************************************************)
(* C4: when the parsed output is a mapping whose `skills` is a list of     *)
(* strings, the normalised skills are the entries trimmed and lowercased,  *)
(* empty ones removed and duplicates removed keeping the first; no skill   *)
(* occurs twice.  The code removes duplicates only in the technical_skills *)
(* fallback.                                                               *)
(***************************************************************************)
C4_SkillsTrimmedLoweredDeduplicated ==
    (/\ Ran
     /\ YieldsMapping
     /\ IsList(DictGet(Loaded.v, "skills", JNull))
     /\ \A i \in 1..Len(DictGet(Loaded.v, "skills", JNull).v) :
            DictGet(Loaded.v, "skills", JNull).v[i].ty = "str"
     /\ TrimmedLowered(DictGet(Loaded.v, "skills", JNull).v) # <<>>)
    => normOut[1].skills = DedupFirst(TrimmedLowered(DictGet(Loaded.v, "skills", JNull).v))

(***************************************************************************)
(* C6: for every parsed mapping, is_resume of the record is true only if   *)
(* the field is_resume is present and is the boolean true.  The code takes *)
(* bool() of the field, so "no", 1 or a non-empty list count as true.      *)
(***************************************************************************)
C6_IsResumeOnlyForBooleanTrue ==
    (Ran /\ YieldsMapping) =>
        (normOut[1].is_resume <=> DictGet(Loaded.v, "is_resume", JNull) = JBool(TRUE))

(***************************************************************************)
(* C7 as stated: raw text that yields no JSON mapping gives skills = [],   *)
(* is_resume = false, confidence = 0.0 and an error; for (non-empty) text  *)
(* without braces the error is "no JSON object found".  Text without       *)
(* braces that is valid JSON (null, a number, a list) parses directly and  *)
(* gets "Model did not return valid JSON." instead.                        *)
(***************************************************************************)
C7_NoMappingGivesErrorRecord ==
    (Ran /\ ~YieldsMapping) =>
        /\ normOut[1].skills = <<>>
        /\ normOut[1].is_resume = FALSE
        /\ normOut[1].confidence = 0
        /\ normOut[1].error # NoneMsg
        /\ (normIn.raw.some /\ normIn.raw.text # <<>> /\ ~HasBrace(normIn.raw.text)) =>
              normOut[1].error = <<"no JSON object found">>

(***************************************************************************)
(* C7 amended: raw text that yields no JSON mapping gives skills = [],     *)
(* is_resume = false, confidence = 0.0 and an error; for non-empty text    *)
(* without braces that is not itself valid JSON the error is "no JSON      *)
(* object found", and for text that is valid JSON but no object it is      *)
(* "Model did not return valid JSON.".                                     *)
(***************************************************************************)
C7_NoMappingGivesErrorRecordAmended ==
    (Ran /\ ~YieldsMapping) =>
        /\ normOut[1].skills = <<>>
        /\ normOut[1].is_resume = FALSE
        /\ normOut[1].confidence = 0
        /\ normOut[1].error # NoneMsg
        /\ (normIn.raw.some /\ normIn.raw.text # <<>> /\ ~HasBrace(normIn.raw.text)) =>
              normOut[1].error = IF IsJson(normIn.raw.text)
                                 THEN <<"Model did not return valid JSON.">>
                                 ELSE <<"no JSON object found">>

C7_Witness ==
    /\ Ran
    /\ normIn.raw = Some(<<Prose, WS, Prose>>)
    /\ normOut[1].error = <<"no JSON object found">>
    /\ normOut[1].skills = <<>>

(***************************************************************************)
(* C9 as stated: text extraction, the remote calls and the backoff sleeps  *)
(* of an upload all run on the two-thread pool and never on the event      *)
(* loop, and at most two uploads are in those steps at once.  The handler  *)
(* calls the extractor itself, on the event loop.                          *)
(***************************************************************************)
Blocking == {"extracting", "calling", "sleeping"}

C9_BlockingStepsOnPool ==
    /\ \A r \in Reqs : pc[r] \in Blocking => (r \in onWorker /\ onLoop # r)
    /\ Cardinality({r \in Reqs : pc[r] \in Blocking}) <= MaxWorkers

(***************************************************************************)
(* C9 amended: the remote calls and the backoff sleeps of an upload run on *)
(* the two-thread pool and never on the event loop, at most two uploads    *)
(* are in those steps at once, and while the loop is free it can take up   *)
(* any other request (a new upload, a finished task); text extraction runs *)
(* on the event loop and occupies it until it ends.                        *)
(***************************************************************************)
C9_ModelCallsOnPool ==
    /\ \A r \in Reqs :
          /\ pc[r] \in {"calling", "sleeping"} <=> r \in onWorker
          /\ r \in onWorker => onLoop # r
          /\ pc[r] = "extracting" <=> onLoop = r
    /\ Cardinality(onWorker) <= MaxWorkers
    /\ onLoop = 0 =>
          \A q \in inputs.reqs :
              /\ pc[q] = "new" => ENABLED Receive(q)
              /\ pc[q] \in {"returned", "raised"} => ENABLED Respond(q)

C9_Witness ==
    /\ Cardinality(onWorker) = MaxWorkers
    /\ \E q \in Reqs : pc[q] = "queued"
    /\ \E r \in onWorker : pc[r] = "sleeping"
=============================================================================
